---- MODULE Spec2Model ----
(***************************************************************************)
(* Model of src/readers/loaders/excel_loader.py: the two spreadsheet       *)
(* loaders PandasExcelReader (one document per file) and ExcelReader (one  *)
(* document per segment of a batch of rows).                               *)
(*                                                                         *)
(* Text is a sequence of one-character strings (sheet and file names are   *)
(* kept as single atoms).  A cell of a parsed frame is a record            *)
(* [missing, text]: missing is pandas' NaN, text is the str() of the value.*)
(* A dictionary key or metadata value is a record [t, i, s] holding either *)
(* an integer (t = "int") or a string (t = "str").                         *)
(***************************************************************************)
EXTENDS Integers, Sequences, FiniteSets, TLC

\* ------------------------------------------------------------------ bounds
\* Longest first sheet of an enumerated workbook.
MaxRows == 1
\* Largest rows_per_doc a reader is constructed with.
MaxRowsPerDoc == 2
\* Largest small max_words_per_page a reader is constructed with.
MaxBudget == 1

\* ------------------------------------------------- program constants
DefaultRowsPerDoc == 1
DefaultMaxWordsPerPage == 2048
DefaultRowJoiner == <<"\n">>
DefaultColJoiner == <<" ">>
ExcelReaderDefaultIncludeSheetname == TRUE
PandasExcelReaderDefaultIncludeSheetname == FALSE

\* ------------------------------------------------------------ values
IntVal(n) == [t |-> "int", i |-> n, s |-> ""]
StrVal(x) == [t |-> "str", i |-> 0, s |-> x]
EmptyDict == [k \in {} |-> IntVal(0)]

Min(a, b) == IF a <= b THEN a ELSE b

\* ------------------------------------------------ Python string methods
\* str.strip() with no argument removes these from both ends.
Whitespace == {" ", "\n", "\t"}

RECURSIVE LStrip(_)
LStrip(s) ==
    IF s = <<>> THEN <<>>
    ELSE IF Head(s) \in Whitespace THEN LStrip(Tail(s)) ELSE s

RECURSIVE RStrip(_)
RStrip(s) ==
    IF s = <<>> THEN <<>>
    ELSE IF s[Len(s)] \in Whitespace THEN RStrip(SubSeq(s, 1, Len(s) - 1)) ELSE s

Strip(s) == RStrip(LStrip(s))

\* sep.join(parts)
RECURSIVE Join(_, _)
Join(sep, parts) ==
    IF parts = <<>> THEN <<>>
    ELSE IF Len(parts) = 1 THEN parts[1]
    ELSE parts[1] \o sep \o Join(sep, Tail(parts))

\* itertools.chain.from_iterable / repeated list.append of lists
RECURSIVE Flatten(_)
Flatten(ss) == IF ss = <<>> THEN <<>> ELSE Head(ss) \o Flatten(Tail(ss))

\* Python slice seq[i:j] with 0-based i <= len
Slice(seq, i, j) == SubSeq(seq, i + 1, Min(j, Len(seq)))

\* --------------------------------------------------------- the inputs
NaN == [missing |-> TRUE, text |-> <<>>]
Cell(chars) == [missing |-> FALSE, text |-> chars]

RowAB == <<Cell(<<"a">>), Cell(<<"b">>)>>
RowCD == <<Cell(<<"c">>), Cell(<<"d">>)>>
RowBA == <<Cell(<<"b">>), Cell(<<"a">>)>>
RowMissing == <<NaN, NaN>>
RowEmptyText == <<Cell(<<>>), NaN>>
RowLeadingGap == <<NaN, Cell(<<"a">>)>>

RowPool == {RowAB, RowMissing, RowEmptyText, RowLeadingGap}

SheetRows == UNION {[1..n -> RowPool] : n \in 0..MaxRows}

FileName == "book.xlsx"

\* A workbook on disk: its sheets in order, each a name and a grid of rows.
Workbook(sheets) == [readable |-> TRUE, name |-> FileName, sheets |-> sheets]
UnreadableFile == [readable |-> FALSE, name |-> FileName, sheets |-> <<>>]

ScenarioWorkbook ==
    Workbook(<<[name |-> "Sheet1", rows |-> <<RowAB, RowMissing, RowCD>>]>>)

Files ==
    {Workbook(<<[name |-> "Sheet1", rows |-> r],
                [name |-> "Sheet2",
                 rows |-> <<RowBA, RowLeadingGap, RowMissing, RowEmptyText>>]>>) : r \in SheetRows}
    \cup {ScenarioWorkbook, UnreadableFile}

\* The sheet_name argument: None, or one selector, or a list of selectors.
\* A selector is a sheet name (str) or a 0-based sheet index (int).
NoSelection == [given |-> FALSE, list |-> FALSE, items |-> <<>>]
One(sel) == [given |-> TRUE, list |-> FALSE, items |-> <<sel>>]
Many(sels) == [given |-> TRUE, list |-> TRUE, items |-> sels]

SheetNameArgs ==
    {NoSelection,
     One(IntVal(1)),
     Many(<<StrVal("Sheet2"), StrVal("Sheet1")>>),
     One(StrVal("Missing"))}

GeneratedKeys ==
    {"page_label", "sheet_name", "batch_start_row", "batch_end_row", "content_index"}

ExtraInfos ==
    {EmptyDict,
     [k \in GeneratedKeys \cup {"source"} |->
        IF k = "source" THEN StrVal("x")
        ELSE IF k = "sheet_name" THEN StrVal("mine") ELSE IntVal(99)]}

\* (row_joiner, col_joiner) as passed to a constructor; "" selects the default
JoinerArgs == {<<<<>>, <<>>>>, <<<<"|">>, <<",">>>>}
Budgets == (1..MaxBudget) \cup {DefaultMaxWordsPerPage}

\* ------------------------------------------------------- construction
\* ExcelReader.__init__
ExcelReaderInit(row_joiner, col_joiner, rows_per_doc, max_words_per_page) ==
    [kind |-> "ExcelReader",
     row_joiner |-> IF row_joiner # <<>> THEN row_joiner ELSE DefaultRowJoiner,
     col_joiner |-> IF col_joiner # <<>> THEN col_joiner ELSE DefaultColJoiner,
     rows_per_doc |-> rows_per_doc,
     max_words_per_page |-> max_words_per_page]

\* PandasExcelReader.__init__ (it has no batching options: the two fields
\* are carried at the ExcelReader defaults and never read)
PandasExcelReaderInit(row_joiner, col_joiner) ==
    [kind |-> "PandasExcelReader",
     row_joiner |-> IF row_joiner # <<>> THEN row_joiner ELSE DefaultRowJoiner,
     col_joiner |-> IF col_joiner # <<>> THEN col_joiner ELSE DefaultColJoiner,
     rows_per_doc |-> DefaultRowsPerDoc,
     max_words_per_page |-> DefaultMaxWordsPerPage]

\* ------------------------------------------------ the parsing collaborator
\* if sheet_name is not None: sheet_name = [sheet_name] unless it is a list
NormalizeSheetName(arg) ==
    IF arg.given THEN [given |-> TRUE, list |-> TRUE, items |-> arg.items] ELSE arg

SheetIndexOf(f, sel) ==
    IF sel.t = "int"
    THEN IF sel.i \in 0..(Len(f.sheets) - 1) THEN sel.i + 1 ELSE 0
    ELSE IF \E p \in 1..Len(f.sheets) : f.sheets[p].name = sel.s
         THEN CHOOSE p \in 1..Len(f.sheets) : f.sheets[p].name = sel.s
         ELSE 0

\* pd.read_excel(file, sheet_name=...): with no selection every sheet, keyed by
\* its name, in workbook order; with a list the requested sheets, keyed by the
\* selectors as given, in the order given (the selections enumerated here
\* name no sheet twice).  (A list never yields a bare
\* DataFrame, so the isinstance branch of load_data is not taken.)
read_excel(f, sheet_name) ==
    IF ~f.readable
    THEN [ok |-> FALSE, error |-> "ParseError", keys |-> <<>>, frames |-> <<>>]
    ELSE IF ~sheet_name.given
    THEN [ok |-> TRUE, error |-> "",
          keys |-> [p \in 1..Len(f.sheets) |-> StrVal(f.sheets[p].name)],
          frames |-> [p \in 1..Len(f.sheets) |-> f.sheets[p].rows]]
    ELSE IF \E q \in 1..Len(sheet_name.items) : SheetIndexOf(f, sheet_name.items[q]) = 0
    THEN [ok |-> FALSE, error |-> "SheetNotFound", keys |-> <<>>, frames |-> <<>>]
    ELSE [ok |-> TRUE, error |-> "",
          keys |-> sheet_name.items,
          frames |-> [q \in 1..Len(sheet_name.items) |->
                        f.sheets[SheetIndexOf(f, sheet_name.items[q])].rows]]

\* ------------------------------------------------------------ cleaning
AllMissing(row) == \A c \in 1..Len(row) : row[c].missing

CleanDropAny(rows) ==
    LET kept == SelectSeq(rows, LAMBDA r : \A c \in 1..Len(r) : ~r[c].missing)
    IN [k \in 1..Len(kept) |-> [c \in 1..Len(kept[k]) |-> kept[k][c].text]]

\* df.dropna(axis=0, how="all"); df.fillna(""); df.values.astype(str).tolist()
Clean(rows) ==
    LET kept == SelectSeq(rows, LAMBDA r : ~AllMissing(r))
    IN [k \in 1..Len(kept) |-> [c \in 1..Len(kept[k]) |-> kept[k][c].text]]

\* ------------------------------------------------------------ batching
BatchesFullOnly(rows, n) ==
    [b \in 1..(Len(rows) \div n) |->
        [start |-> (b - 1) * n, rows |-> Slice(rows, (b - 1) * n, (b - 1) * n + n)]]

\* for i in range(0, len(rows), n): batch_rows = rows[i:i + n]
Batches(rows, n) ==
    [b \in 1..((Len(rows) + n - 1) \div n) |->
        [start |-> (b - 1) * n, rows |-> Slice(rows, (b - 1) * n, (b - 1) * n + n)]]

\* ----------------------------------------------------------- rendering
RenderBatchUntrimmedRows(r, batch_rows) ==
    Strip(Join(r.row_joiner,
               [k \in 1..Len(batch_rows) |-> Join(r.col_joiner, batch_rows[k])]))

\* row_joiner.join(col_joiner.join(row).strip() for row in batch_rows).strip()
RenderBatch(r, batch_rows) ==
    Strip(Join(r.row_joiner,
               [k \in 1..Len(batch_rows) |-> Strip(Join(r.col_joiner, batch_rows[k]))]))

\* ----------------------------------------------------------- splitting
\* A token is a maximal run of non-whitespace characters.
TokenCount(s) ==
    Cardinality({p \in 1..Len(s) :
        s[p] \notin Whitespace /\ (p = 1 \/ s[p - 1] \in Whitespace)})

\* split_text(text, max_tokens): cut the text, left to right, into the longest
\* pieces of at most max_tokens tokens; an empty text has no piece.
RECURSIVE split_text(_, _)
split_text(text, max_tokens) ==
    IF text = <<>> \/ max_tokens < 1 THEN <<>>
    ELSE LET fits == {n \in 1..Len(text) : TokenCount(SubSeq(text, 1, n)) <= max_tokens}
             cut == CHOOSE n \in fits : \A m \in fits : m <= n
         IN <<SubSeq(text, 1, cut)>>
            \o split_text(SubSeq(text, cut + 1, Len(text)), max_tokens)

SegmentBudgetOffByOne(r) == r.max_words_per_page + 1

\* contents = split_text(content, max_tokens=self.max_words_per_page)
SegmentBudget(r) == r.max_words_per_page

\* ------------------------------------------------------------ documents
FormatKey(key) == IF key.t = "int" THEN <<ToString(key.i)>> ELSE <<key.s>>

\* f"(Sheet {key} of file {file.name})\n"
ProvenancePrefix(key, f) ==
    <<"(Sheet ">> \o FormatKey(key) \o <<" of file ", f.name, ")", "\n">>

DocumentTextNeverPrefixed(include_sheetname, key, f, c) == c

\* if include_sheetname: c = f"(Sheet {key} of file {file.name})\n{c}"
DocumentText(include_sheetname, key, f, c) ==
    IF include_sheetname THEN ProvenancePrefix(key, f) \o c ELSE c

\* {"page_label": ..., ..., "content_index": ..., **extra_info}
Metadata(idx, key, i, batch_rows, c_i, extra_info) ==
    LET generated == [k \in GeneratedKeys |->
            CASE k = "page_label" -> IntVal(idx + 1)
              [] k = "sheet_name" -> key
              [] k = "batch_start_row" -> IntVal(i + 1)
              [] k = "batch_end_row" -> IntVal(i + Len(batch_rows))
              [] k = "content_index" -> IntVal(c_i + 1)]
    IN [k \in GeneratedKeys \cup DOMAIN extra_info |->
            IF k \in DOMAIN extra_info THEN extra_info[k] ELSE generated[k]]

\* The documents of one batch.  origin is not part of the Document: it records
\* which sheet (0-based idx), batch (0-based first row i) and segment (0-based
\* c_i) the loop was at when the document was appended.
BatchDocuments(r, f, args, idx, key, batch) ==
    LET content == RenderBatch(r, batch.rows)
        contents == split_text(content, SegmentBudget(r))
    IN [s \in 1..Len(contents) |->
          [text |-> DocumentText(args.include_sheetname, key, f, contents[s]),
           metadata |-> Metadata(idx, key, batch.start, batch.rows, s - 1,
                                 args.extra_info),
           origin |-> [idx |-> idx, i |-> batch.start, c_i |-> s - 1]]]

SheetDocuments(r, f, args, idx, key, rows) ==
    LET bs == Batches(rows, r.rows_per_doc)
    IN Flatten([b \in 1..Len(bs) |-> BatchDocuments(r, f, args, idx, key, bs[b])])

\* ------------------------------------------------------------- outcomes
NoLocals == [reads |-> 0, keys |-> <<>>, frames |-> <<>>, cleaned |-> <<>>,
             batches |-> <<>>]

LoadFailureSwallowed(err) == [status |-> "returned", error |-> err, docs |-> <<>>]

\* An exception leaves load_data: the caller gets no list.
LoadFailure(err) == [status |-> "raised", error |-> err, docs |-> <<>>]

LoadSuccess(docs) == [status |-> "returned", error |-> "", docs |-> docs]

\* reader            the loader object: its class and the fields __init__ set
\* file              the workbook at the path the calls are given, as the parser
\*                   delivers it under the reader's pandas_config (cells the
\*                   parser reports as NaN are missing, all others are text)
\* pandas_installed  whether "import pandas" succeeds
\* call              the arguments of the last load_data call
\* result            what that call gave its caller: a list of documents or an
\*                   exception
VARIABLES reader, file, pandas_installed, call, result, locals
vars == <<reader, file, pandas_installed, call, result, locals>>

\* locals records, for the last call, how often the parser was invoked and
\* the values the loop variables took: the frames as parsed, the cleaned rows
\* and the batches of every sheet, in the order the loop visited them.
NoCall == [op |-> "none", sheet_name |-> NoSelection, include_sheetname |-> FALSE,
           extra_info |-> EmptyDict]

\* ExcelReader.load_data as a function of the reader, the environment and the
\* arguments: what the caller gets and what the loop went through.
ExcelLoadOutcome(r, f, installed, args) ==
    IF ~installed
    THEN [result |-> LoadFailure("ImportError"), locals |-> NoLocals]
    ELSE LET dfs == read_excel(f, NormalizeSheetName(args.sheet_name))
         IN IF ~dfs.ok
            THEN [result |-> LoadFailure(dfs.error),
                  locals |-> [NoLocals EXCEPT !.reads = 1]]
            ELSE LET cleaned == [p \in 1..Len(dfs.keys) |-> Clean(dfs.frames[p])]
                 IN [result |-> LoadSuccess(Flatten(
                        [p \in 1..Len(dfs.keys) |->
                            SheetDocuments(r, f, args, p - 1, dfs.keys[p], cleaned[p])])),
                     locals |-> [reads |-> 1, keys |-> dfs.keys, frames |-> dfs.frames,
                                 cleaned |-> cleaned,
                                 batches |-> [p \in 1..Len(dfs.keys) |->
                                     Batches(cleaned[p], r.rows_per_doc)]]]

\* PandasExcelReader.load_data.  With include_sheetname the list [key] is put
\* in front of the sheet's rows, and col_joiner.join([key]) raises TypeError
\* when the key is an integer.
PandasLoadOutcome(r, f, installed, args) ==
    IF ~installed
    THEN [result |-> LoadFailure("ImportError"), locals |-> NoLocals]
    ELSE LET dfs == read_excel(f, NormalizeSheetName(args.sheet_name))
         IN IF ~dfs.ok
            THEN [result |-> LoadFailure(dfs.error),
                  locals |-> [NoLocals EXCEPT !.reads = 1]]
            ELSE LET cleaned == [p \in 1..Len(dfs.keys) |-> Clean(dfs.frames[p])]
                     df_sheets == [p \in 1..Len(dfs.keys) |->
                         (IF args.include_sheetname THEN <<<<<<dfs.keys[p].s>>>>>>
                          ELSE <<>>) \o cleaned[p]]
                     text_list == Flatten(df_sheets)
                     log == [reads |-> 1, keys |-> dfs.keys, frames |-> dfs.frames,
                             cleaned |-> cleaned, batches |-> <<>>]
                 IN IF args.include_sheetname
                       /\ \E p \in 1..Len(dfs.keys) : dfs.keys[p].t = "int"
                    THEN [result |-> LoadFailure("TypeError"), locals |-> log]
                    ELSE [result |-> LoadSuccess(<<
                            [text |-> Join(r.row_joiner,
                                [k \in 1..Len(text_list) |->
                                    Join(r.col_joiner, text_list[k])]),
                             metadata |-> args.extra_info,
                             origin |-> [idx |-> 0, i |-> 0, c_i |-> 0]]>>),
                          locals |-> log]

Init ==
    /\ reader \in
          {ExcelReaderInit(j[1], j[2], n, m) :
              j \in JoinerArgs, n \in 1..MaxRowsPerDoc, m \in Budgets}
          \cup {PandasExcelReaderInit(j[1], j[2]) : j \in JoinerArgs}
    /\ file \in Files
    /\ pandas_installed \in BOOLEAN
    /\ call = NoCall
    /\ result = [status |-> "none", error |-> "", docs |-> <<>>]
    /\ locals = NoLocals

ExcelLoadData(sheet_name, include_sheetname, extra_info) ==
    /\ reader.kind = "ExcelReader"
    /\ LET args == [op |-> "ExcelReader.load_data", sheet_name |-> sheet_name,
                    include_sheetname |-> include_sheetname,
                    extra_info |-> extra_info]
           out == ExcelLoadOutcome(reader, file, pandas_installed, args)
       IN /\ call' = args
          /\ result' = out.result
          /\ locals' = out.locals
    /\ UNCHANGED <<reader, file, pandas_installed>>

PandasLoadData(sheet_name, include_sheetname, extra_info) ==
    /\ reader.kind = "PandasExcelReader"
    /\ LET args == [op |-> "PandasExcelReader.load_data", sheet_name |-> sheet_name,
                    include_sheetname |-> include_sheetname,
                    extra_info |-> extra_info]
           out == PandasLoadOutcome(reader, file, pandas_installed, args)
       IN /\ call' = args
          /\ result' = out.result
          /\ locals' = out.locals
    /\ UNCHANGED <<reader, file, pandas_installed>>

Next ==
    \/ \E sn \in SheetNameArgs, inc \in BOOLEAN, ei \in ExtraInfos :
          ExcelLoadData(sn, inc, ei)
    \/ \E sn \in SheetNameArgs, inc \in BOOLEAN, ei \in ExtraInfos :
          PandasLoadData(sn, inc, ei)

Spec == Init /\ [][Next]_vars

\* ================================================================ claims
Returned == result.status = "returned"
ExcelCall == call.op = "ExcelReader.load_data"
PandasCall == call.op = "PandasExcelReader.load_data"

\* The documents the loop appended while at sheet idx (0-based), batch at i.
DocsOfBatch(idx, i) ==
    SelectSeq(result.docs, LAMBDA d : d.origin.idx = idx /\ d.origin.i = i)

\* A document's text without the provenance line of its sheet.
Unprefixed(d) ==
    IF call.include_sheetname
    THEN SubSeq(d.text,
                Len(ProvenancePrefix(locals.keys[d.origin.idx + 1], file)) + 1,
                Len(d.text))
    ELSE d.text

BatchOf(d) ==
    LET bs == locals.batches[d.origin.idx + 1]
    IN bs[CHOOSE b \in 1..Len(bs) : bs[b].start = d.origin.i]

\* Rendering as the specification words it: only the whole string is trimmed.
RenderedTrimmedOnce(rows) ==
    Strip(Join(reader.row_joiner,
               [k \in 1..Len(rows) |-> Join(reader.col_joiner, rows[k])]))

\* Rendering with every row trimmed before the rows are joined.
RenderedRowsTrimmed(rows) ==
    Strip(Join(reader.row_joiner,
               [k \in 1..Len(rows) |-> Strip(Join(reader.col_joiner, rows[k]))]))

SegmentsReconstruct(Rendered(_)) ==
    (ExcelCall /\ Returned) =>
        \A p \in 1..Len(locals.batches) :
            \A b \in 1..Len(locals.batches[p]) :
                LET batch == locals.batches[p][b]
                    docs == DocsOfBatch(p - 1, batch.start)
                IN /\ Flatten([k \in 1..Len(docs) |-> Unprefixed(docs[k])])
                        = Rendered(batch.rows)
                   /\ \A k \in 1..Len(docs) : docs[k].origin.c_i = k - 1

\* raw holds the parsed rows, cleaned what the loader kept: exactly the rows
\* that Drop rejects are gone, the others are there as text, in order.
RemovedExactly(raw, cleaned, Drop(_)) ==
    LET kept == {i \in 1..Len(raw) : ~Drop(raw[i])}
    IN /\ Len(cleaned) = Len(raw) - Cardinality({i \in 1..Len(raw) : Drop(raw[i])})
       /\ \A i \in kept :
             cleaned[Cardinality({k \in kept : k <= i})]
                = [c \in 1..Len(raw[i]) |-> raw[i][c].text]

AllEmptyText(row) == \A c \in 1..Len(row) : row[c].text = <<>>
EveryCellMissing(row) == \A c \in 1..Len(row) : row[c].missing

\* The position (1-based) of the selected sheet in the workbook, 0 if none.
SourceOrdinal(sel) ==
    IF sel.t = "int"
    THEN IF sel.i + 1 \in 1..Len(file.sheets) THEN sel.i + 1 ELSE 0
    ELSE IF \E p \in 1..Len(file.sheets) : file.sheets[p].name = sel.s
         THEN CHOOSE p \in 1..Len(file.sheets) : file.sheets[p].name = sel.s
         ELSE 0

SelectsMissingSheet ==
    /\ call.sheet_name.given
    /\ \E q \in 1..Len(call.sheet_name.items) :
          SourceOrdinal(call.sheet_name.items[q]) = 0

LoadMustFail == ~pandas_installed \/ ~file.readable \/ SelectsMissingSheet

\* ---------------------------------------------------------------- C1
\* C1: for every sheet and rows_per_doc >= 1 the batches load_data forms are
\* contiguous, non-empty, and concatenate, in order, to the sheet's cleaned
\* rows: no row is dropped, duplicated or moved.
C1_BatchesPartitionRows ==
    (ExcelCall /\ Returned) =>
        \A p \in 1..Len(locals.cleaned) :
            LET bs == locals.batches[p]
            IN /\ Flatten([b \in 1..Len(bs) |-> bs[b].rows]) = locals.cleaned[p]
               /\ \A b \in 1..Len(bs) :
                     /\ bs[b].rows # <<>>
                     /\ bs[b].start
                          = Len(Flatten([a \in 1..(b - 1) |-> bs[a].rows]))

\* A sheet split into a full batch followed by a shorter final one.
C1_Witness ==
    /\ ExcelCall /\ Returned
    /\ \E p \in 1..Len(locals.batches) :
          /\ Len(locals.batches[p]) >= 2
          /\ Len(locals.batches[p][1].rows) = reader.rows_per_doc
          /\ Len(locals.batches[p][Len(locals.batches[p])].rows) < reader.rows_per_doc

\* ---------------------------------------------------------------- C2
\* C2: every emitted document carries batch_start_row and batch_end_row that
\* are the 1-based inclusive positions of its batch in the cleaned rows of its
\* sheet; end - start + 1 is the batch's row count, which is rows_per_doc
\* except possibly for the final batch (1..rows_per_doc rows).
C2_BatchRowsInMetadata ==
    (ExcelCall /\ Returned) =>
        \A n \in 1..Len(result.docs) :
            LET d == result.docs[n]
                bs == locals.batches[d.origin.idx + 1]
                batch == BatchOf(d)
                first == d.metadata["batch_start_row"]
                last == d.metadata["batch_end_row"]
            IN /\ first.t = "int" /\ last.t = "int"
               /\ first.i = batch.start + 1
               /\ last.i - first.i + 1 = Len(batch.rows)
               /\ 1 <= first.i /\ last.i <= Len(locals.cleaned[d.origin.idx + 1])
               /\ \/ Len(batch.rows) = reader.rows_per_doc
                  \/ /\ batch = bs[Len(bs)]
                     /\ Len(batch.rows) \in 1..reader.rows_per_doc

\* ---------------------------------------------------------------- C3
\* C3 as stated: the unprefixed texts of a batch's documents, in content_index
\* order, concatenate to the batch's rows joined cell by cell and row by row
\* with only the whole string trimmed.
C3_SegmentsReconstructTrimmedOnce == SegmentsReconstruct(RenderedTrimmedOnce)

\* C3 amended: the unprefixed texts of a batch's documents, in content_index
\* order, concatenate to the batch's rendered text, where every row's joined
\* cells are trimmed before the rows are joined and the whole is trimmed again.
C3_SegmentsReconstructRendered == SegmentsReconstruct(RenderedRowsTrimmed)

\* A batch of two rows, one of them with whitespace at its edge, whose text
\* went into more than one segment.
C3_Witness ==
    /\ ExcelCall /\ Returned
    /\ \E p \in 1..Len(locals.batches) : \E b \in 1..Len(locals.batches[p]) :
          LET batch == locals.batches[p][b]
          IN /\ Len(DocsOfBatch(p - 1, batch.start)) >= 2
             /\ Len(batch.rows) >= 2
             /\ RenderedTrimmedOnce(batch.rows) # RenderedRowsTrimmed(batch.rows)

\* ---------------------------------------------------------------- C4
\* C4: every emitted segment (the document text before the provenance line is
\* put in front) has at most max_words_per_page tokens.
C4_SegmentsWithinBudget ==
    (ExcelCall /\ Returned) =>
        \A n \in 1..Len(result.docs) :
            TokenCount(Unprefixed(result.docs[n])) <= reader.max_words_per_page

\* A batch whose rendered text has more tokens than the budget was split.
C4_Witness ==
    /\ ExcelCall /\ Returned
    /\ \E p \in 1..Len(locals.batches) : \E b \in 1..Len(locals.batches[p]) :
          LET batch == locals.batches[p][b]
          IN /\ TokenCount(RenderedRowsTrimmed(batch.rows)) > reader.max_words_per_page
             /\ Len(DocsOfBatch(p - 1, batch.start)) >= 2

\* ---------------------------------------------------------------- C5
\* C5: every document's metadata holds each extra_info key that is not a
\* generated key with the caller's value, and each generated key with the
\* generated value even when extra_info supplies that key.
C5_GeneratedKeysWin ==
    (ExcelCall /\ Returned) =>
        \A n \in 1..Len(result.docs) :
            LET d == result.docs[n]
                md == d.metadata
            IN /\ \A k \in DOMAIN call.extra_info \ GeneratedKeys :
                     md[k] = call.extra_info[k]
               /\ md["page_label"] = IntVal(d.origin.idx + 1)
               /\ md["sheet_name"] = locals.keys[d.origin.idx + 1]
               /\ md["batch_start_row"] = IntVal(d.origin.i + 1)
               /\ md["batch_end_row"] = IntVal(d.origin.i + Len(BatchOf(d).rows))
               /\ md["content_index"] = IntVal(d.origin.c_i + 1)

ScenarioLoaded ==
    /\ ExcelCall
    /\ pandas_installed
    /\ file = ScenarioWorkbook
    /\ reader = ExcelReaderInit(DefaultRowJoiner, DefaultColJoiner,
                                DefaultRowsPerDoc, DefaultMaxWordsPerPage)
    /\ call.sheet_name = NoSelection
    /\ call.extra_info = EmptyDict

ScenarioDocuments(line) ==
    /\ Returned
    /\ Len(result.docs) = 2
    /\ result.docs[1].text = line \o <<"a", " ", "b">>
    /\ result.docs[1].metadata["batch_start_row"] = IntVal(1)
    /\ result.docs[1].metadata["batch_end_row"] = IntVal(1)
    /\ result.docs[2].text = line \o <<"c", " ", "d">>
    /\ result.docs[2].metadata["batch_start_row"] = IntVal(2)
    /\ result.docs[2].metadata["batch_end_row"] = IntVal(2)

C8_PageLabelIsSourceOrdinal ==
    (ExcelCall /\ Returned) =>
        /\ \A n \in 1..Len(result.docs) :
              LET d == result.docs[n]
                  at == SourceOrdinal(locals.keys[d.origin.idx + 1])
              IN /\ d.metadata["page_label"] = IntVal(at)
                 /\ d.metadata["sheet_name"] = StrVal(file.sheets[at].name)
        /\ \A n \in 1..(Len(result.docs) - 1) :
              SourceOrdinal(locals.keys[result.docs[n].origin.idx + 1])
                 <= SourceOrdinal(locals.keys[result.docs[n + 1].origin.idx + 1])

\* ---------------------------------------------------------------- C9
\* C9: a load call that fails (parser library missing, file unreadable, or a
\* selected sheet absent) raises to the caller, hands over no document, reads
\* the file at most once, and leaves the reader as it was.
C9_FailedLoadRaises ==
    [][(call'.op # "none" /\ LoadMustFail') =>
          /\ result'.status = "raised"
          /\ result'.docs = <<>>
          /\ locals'.reads <= 1
          /\ reader' = reader]_vars

\* A call on a readable workbook that named a sheet the workbook lacks.
C9_Witness ==
    /\ ExcelCall
    /\ pandas_installed /\ file.readable /\ SelectsMissingSheet
    /\ result.status = "raised"

\* ---------------------------------------------------------------- C10
\* C10: PandasExcelReader.load_data returns exactly one document for every
\* parsed source: its text is the row-joiner join of, sheet by sheet, an
\* optional line with the sheet's name followed by the sheet's cleaned rows,
\* each joined with the column-joiner; its metadata is the caller's extra_info.
C10_LegacyOneDocument ==
    (PandasCall /\ ~LoadMustFail) =>
        /\ Returned
        /\ Len(result.docs) = 1
        /\ result.docs[1].metadata = call.extra_info
        /\ LET lines == Flatten([p \in 1..Len(locals.keys) |->
                   (IF call.include_sheetname
                    THEN <<<<<<file.sheets[SourceOrdinal(locals.keys[p])].name>>>>>>
                    ELSE <<>>) \o locals.cleaned[p]])
           IN result.docs[1].text
                 = Join(reader.row_joiner,
                        [k \in 1..Len(lines) |-> Join(reader.col_joiner, lines[k])])

====
